---- MODULE Spec2Model ----
(***************************************************************************)
(* A model of the gapic-showcase server (package server, ShowcaseServer):  *)
(* the scripted-retry sequencer (SetupRetry / Retry over retryStore under  *)
(* the mutex mu), the Pagination window computation on 32-bit integers,    *)
(* the Timeout handler and the Echo, Expand, Collect and Chat handlers.    *)
(***************************************************************************)
EXTENDS Integers, Sequences, FiniteSets, Bags, TLC

\* ------------------------------------------------------------------ bounds

\* Largest number of calls in flight at once (one handler goroutine each).
NumProcs == 2

\* Total number of SetupRetry / Retry calls started in one behaviour.
MaxCalls == 4

\* Longest list of responses a SetupRetry request carries.
MaxLen == 2

\* Largest of the small sizes, tokens and maximum responses of Pagination.
MaxSmall == 2

\* Longest chain of Pagination calls that follow nextPageToken.
MaxPages == 4

\* Longest delay of a Timeout request, in ticks of the clock.
MaxDelay == 3

\* Largest number of messages a Collect stream delivers.
MaxMsgs == 3

\* Largest value of the clock nowF().UTC().Unix() (seconds).
MaxNow == 1

\* Longest content of an Expand request, in characters.
MaxChars == 3

\* ------------------------------------------------------- codes and strings

\* codes.OK, codes.InvalidArgument, codes.NotFound (google.golang.org/grpc/codes).
OK == 0

InvalidArgument == 3

NotFound == 5

\* Strings are sequences of characters; a character is a one-letter string.
Digits == <<"0", "1", "2", "3", "4", "5", "6", "7", "8", "9">>

\* math.MaxInt32 and math.MinInt32, the ends of the range of int32.
MaxInt32 == 2147483647

MinInt32 == -MaxInt32 - 1

\* strconv.Itoa of a non-negative int: its decimal digits, most significant first.
RECURSIVE ItoaNat(_)
ItoaNat(n) ==
    IF n < 10 THEN <<Digits[n + 1]>>
    ELSE Append(ItoaNat(n \div 10), Digits[(n % 10) + 1])

\* strconv.Itoa(int(end)) for a 32-bit value: a "-" sign, then the digits of
\* the magnitude (computed from -(n+1) so that -2^31 needs no 2^31).
Itoa(n) ==
    IF n >= 0 THEN ItoaNat(n)
    ELSE LET m == -(n + 1)
             last == ((m % 10) + 1) % 10
             rest == (m \div 10) + (IF m % 10 = 9 THEN 1 ELSE 0)
         IN  <<"-">> \o (IF rest = 0 THEN <<>> ELSE ItoaNat(rest))
                     \o <<Digits[last + 1]>>

\* ---------------------------------------------------------------- statuses

\* A *statuspb.Status of a request: a code and a message.
Status(c, m) == [code |-> c, message |-> m]

\* The outcomes a SetupRetry request may queue at position i of its list: OK,
\* or an error whose message names the position (so that every queued error
\* of a list is distinct) and whose code alternates between two codes.
OkStatus == Status(OK, <<>>)

ErrAt(i) ==
    Status(IF i % 2 = 1 THEN NotFound ELSE InvalidArgument, <<"e">> \o Itoa(i))

\* status.FromProto(resp).Code() == codes.OK
IsOK(resp) == resp.code = OK

\* What a handler returns: err is NoErr (nil) or a status error; id is the
\* RetryId of a successful SetupRetry (the empty string otherwise).
NoErr == [code |-> OK, message |-> <<>>]

Ret(err, id) == [err |-> err, id |-> id]

\* status.ErrorProto(s) for a status s that is present: nil when its code is
\* OK, otherwise an error with exactly that code and message.
ErrorProto(s) == IF s.code = OK THEN NoErr ELSE [code |-> s.code, message |-> s.message]

\* A missing entry reported with the code of an invalid argument.
NotFoundErrAsInvalidArgument(id) ==
    [code |-> InvalidArgument,
     message |-> <<"Retry with Id: ">> \o id \o <<" was not found.">>]

\* status.Errorf(codes.NotFound, "Retry with Id: %s was not found.", id)
NotFoundErr(id) ==
    [code |-> NotFound,
     message |-> <<"Retry with Id: ">> \o id \o <<" was not found.">>]

\* status.Error(codes.InvalidArgument, "An Id must be specified.")
NoIdErr == [code |-> InvalidArgument, message |-> <<"An Id must be specified.">>]

\* An empty list of responses reported with the code of a missing entry.
NoResponsesErrAsNotFound ==
    [code |-> NotFound, message |-> <<"A list of responses must be specified.">>]

\* status.Error(codes.InvalidArgument, "A list of responses must be specified.")
NoResponsesErr ==
    [code |-> InvalidArgument, message |-> <<"A list of responses must be specified.">>]

\* fmt.Sprintf("retry-test-%d", unix)
RetryId(unix) == <<"retry-test-">> \o Itoa(unix)

EmptyId == <<>>

\* The ids the clock can produce, and the ids a Retry request may carry.
ClockIds == { RetryId(t) : t \in 0..MaxNow }

RequestIds == ClockIds \cup {EmptyId}

\* The non-empty response lists a SetupRetry request may carry: errors up to
\* the first OK, if any, and at most one outcome behind the first OK (nothing
\* behind the first OK is ever read).
ErrorsOnly(n) == [i \in 1..n |-> ErrAt(i)]

ResponseLists ==
    { ErrorsOnly(n) : n \in 1..MaxLen }
    \cup { Append(ErrorsOnly(n), OkStatus) : n \in 0..(MaxLen - 1) }
    \cup { ErrorsOnly(n) \o <<OkStatus, ErrAt(n + 2)>> : n \in 0..(MaxLen - 2) }

VARIABLES
    retryStore,   \* s.retryStore: the map id -> queued responses, as a function
    mu,           \* s.mu: TRUE while the mutex is held
    inflight,     \* the calls in flight, a bag of records: op, pc, the id of
                  \* a Retry request, Retry's local resps, the result ret
    calls,        \* number of calls started so far
    hist,         \* hist[id]: the list last stored under id and the results of
                  \* the Retry(id) calls that reached the table since, in order
    intSize,      \* strconv.IntSize of the build: the width of Go's int
    pgIn,         \* the PaginationRequest of the last Pagination call
    pgOut,        \* what that call computed and returned
    pgChain,      \* the chain of calls that follow nextPageToken from ""
    tm,           \* the Timeout call: its request, its sleep, its result
    cl,           \* the Collect call: its stream, its accumulator, its result
    pgFirst,      \* the first Pagination call: its request, its result, and
                  \* the number of calls made with that request
    echo,         \* the Echo call: its request and its result
    expd,         \* the Expand call: its request, the words sent, its result
    chat          \* the Chat call: its stream, the echoes sent, its result

retryVars == <<retryStore, mu, inflight, calls, hist>>

pgVars == <<intSize, pgIn, pgOut, pgChain, pgFirst>>

echoVars == <<echo, expd, chat>>

vars ==
    <<retryStore, mu, inflight, calls, hist, intSize, pgIn, pgOut, pgChain, tm, cl,
      pgFirst, echo, expd, chat>>

\* ------------------------------------------------------------ calls in flight

Call(op, at, id, list, r) == [op |-> op, pc |-> at, id |-> id, resps |-> list, ret |-> r]

InFlight == BagToSet(inflight)

\* The handler of call c takes a step and becomes d; it returns.
Step(c, d) == (inflight (-) SetToBag({c})) (+) SetToBag({d})

Return(c) == inflight (-) SetToBag({c})

\* ------------------------------------------------------------ the retry table

\* resps, ok := s.retryStore[id]: ok (also false on the nil map).
HasEntry(store, id) == id \in DOMAIN store

\* s.retryStore[id] = list
StorePut(store, id, list) ==
    [k \in (DOMAIN store) \cup {id} |-> IF k = id THEN list ELSE store[k]]

\* A delete that empties the table.
StoreDeleteAll(store, id) == << >>

\* delete(s.retryStore, id)
StoreDelete(store, id) == [k \in (DOMAIN store) \ {id} |-> store[k]]

\* A Retry that stores the remainder back even when nothing remains.
StoreAfterPopKeepsEmpty(store, id, list) ==
    IF IsOK(Head(list)) THEN StoreDelete(store, id)
    ELSE StorePut(store, id, Tail(list))

\* A Retry that keeps the outcomes queued behind an OK head.
StoreAfterPopKeepsBehindOk(store, id, list) ==
    IF Len(Tail(list)) = 0 THEN StoreDelete(store, id)
    ELSE StorePut(store, id, Tail(list))

\* Retry, lines 193-203: the table after popping the head of list, stored
\* under id: an OK head deletes the entry, an error head deletes it when
\* nothing remains and stores the remainder otherwise.
StoreAfterPop(store, id, list) ==
    LET resp == Head(list)
        rest == Tail(list)
    IN  IF IsOK(resp) THEN StoreDelete(store, id)
        ELSE IF Len(rest) = 0 THEN StoreDelete(store, id)
        ELSE StorePut(store, id, rest)

\* A Retry that returns the outcome now at the head of the queue, the one
\* after the popped one.
PopResultOfNext(list) ==
    LET resp == IF Len(list) > 1 THEN list[2] ELSE list[1]
    IN  IF IsOK(Head(list)) THEN Ret(NoErr, EmptyId) ELSE Ret(ErrorProto(resp), EmptyId)

\* Retry, lines 193-203: what the call returns for the list it looked up.
PopResult(list) ==
    LET resp == Head(list)
    IN  IF IsOK(resp) THEN Ret(NoErr, EmptyId) ELSE Ret(ErrorProto(resp), EmptyId)

\* A lock that does not wait for the mutex to be free.
LockNoWait == mu' = TRUE

\* s.mu.Lock(): blocks until the mutex is free, then holds it.
Lock == mu = FALSE /\ mu' = TRUE

\* A return that leaves the mutex as it is.
UnlockForgotten == mu' = mu

\* s.mu.Unlock()
Unlock == mu' = FALSE

\* ------------------------------------------------------------------- history

NoHist == [setup |-> <<>>, results |-> <<>>]

Record(id, r) == [hist EXCEPT ![id].results = Append(@, r)]

\* ------------------------------------------------------------------ strconv

IsDigit(ch) == \E d \in 0..9 : Digits[d + 1] = ch

DigitVal(ch) == CHOOSE d \in 0..9 : Digits[d + 1] = ch

\* An unsigned magnitude below 2^64 as four 16-bit limbs, least significant
\* first, with ovf set once a digit carried it past 2^64.
LimbBase == 256 * 256

ZeroMag == [l |-> <<0, 0, 0, 0>>, ovf |-> FALSE]

\* n = n*10 + digit, as ParseUint accumulates.
MulAdd(v, d) ==
    LET t1 == v.l[1] * 10 + d
        t2 == v.l[2] * 10 + (t1 \div LimbBase)
        t3 == v.l[3] * 10 + (t2 \div LimbBase)
        t4 == v.l[4] * 10 + (t3 \div LimbBase)
    IN  [l |-> <<t1 % LimbBase, t2 % LimbBase, t3 % LimbBase, t4 % LimbBase>>,
         ovf |-> v.ovf \/ t4 >= LimbBase]

RECURSIVE Magnitude(_)
Magnitude(ds) ==
    IF ds = <<>> THEN ZeroMag
    ELSE MulAdd(Magnitude(SubSeq(ds, 1, Len(ds) - 1)), DigitVal(ds[Len(ds)]))

\* The magnitude is at most 2^(bits-1) - 1 (a positive int), or at most
\* 2^(bits-1) (a negative one).
HalfLimb == LimbBase \div 2

FitsPositive(v, bits) ==
    /\ ~v.ovf
    /\ IF bits = 64 THEN v.l[4] < HalfLimb
       ELSE v.l[4] = 0 /\ v.l[3] = 0 /\ v.l[2] < HalfLimb

FitsNegative(v, bits) ==
    \/ FitsPositive(v, bits)
    \/ /\ ~v.ovf
       /\ IF bits = 64
          THEN v.l[4] = HalfLimb /\ v.l[3] = 0 /\ v.l[2] = 0 /\ v.l[1] = 0
          ELSE v.l[4] = 0 /\ v.l[3] = 0 /\ v.l[2] = HalfLimb /\ v.l[1] = 0

\* strconv.Atoi(s) on a build whose int has `bits` bits: an optional sign,
\* then one or more decimal digits, the value within the range of int; err
\* is a syntax or range error. The int it returns is kept as sign and
\* magnitude.
Atoi(s, bits) ==
    LET signed == s # <<>> /\ s[1] \in {"+", "-"}
        neg == s # <<>> /\ s[1] = "-"
        ds == IF signed THEN Tail(s) ELSE s
        syntax == ds = <<>> \/ \E i \in 1..Len(ds) : ~IsDigit(ds[i])
        v == IF syntax THEN ZeroMag ELSE Magnitude(ds)
        range == IF neg THEN ~FitsNegative(v, bits) ELSE ~FitsPositive(v, bits)
    IN  [err |-> syntax \/ range, neg |-> neg, mag |-> v]

\* The conversion int32(token): the low 32 bits, read as a signed integer.
Int32(n) ==
    LET hi == n.mag.l[2]
        lo == n.mag.l[1]
        low == IF hi >= HalfLimb THEN (hi - LimbBase) * LimbBase + lo
               ELSE hi * LimbBase + lo
    IN  IF ~n.neg THEN low
        ELSE IF low = MinInt32 THEN MinInt32 ELSE -low

\* a + b on int32, wrapping around on overflow.
Add32(a, b) ==
    IF a >= 0 /\ b >= 0 /\ a > MaxInt32 - b THEN (a + MinInt32) + (b + MinInt32)
    ELSE IF a < 0 /\ b < 0 /\ a < MinInt32 - b THEN (a - MinInt32) + (b - MinInt32)
    ELSE a + b

\* --------------------------------------------------------------- Pagination

PaginationRequest(ps, pso, tok, mr) ==
    [pageSize |-> ps, pageSizeOverride |-> pso, pageToken |-> tok, maxResponse |-> mr]

\* The page []int32{start, ..., end-1} built by the loop of lines 247-250,
\* kept as its first element and its length (empty when start >= end).
NoPage == [first |-> 0, len |-> 0]

Page(start, end) == IF start < end THEN [first |-> start, len |-> end - start] ELSE NoPage

PaginationFailure(e) ==
    [err |-> e, start |-> 0, end |-> 0, page |-> NoPage, nextPageToken |-> <<>>]

NegativeSizeErr ==
    [code |-> InvalidArgument,
     message |-> <<"The page size provided must not be negative.">>]

NonPositiveMaxErr ==
    [code |-> InvalidArgument,
     message |-> <<"The maximum response provided must be positive.">>]

InvalidTokenErr(tok) ==
    [code |-> InvalidArgument,
     message |-> <<"Invalid page token: ">> \o tok
                 \o <<". Token must be within the range [0, request.MaxResponse]">>]

\* Pagination, lines 229-255: the window from start, the next token, the page.
PaginationWindow(in, start) ==
    LET actualSize == IF in.pageSizeOverride > 0 THEN in.pageSizeOverride ELSE in.pageSize
        sum == Add32(start, actualSize)
        all == IF actualSize = 0 THEN in.maxResponse ELSE sum
        end == IF all > in.maxResponse THEN in.maxResponse ELSE all
    IN  [err |-> NoErr, start |-> start, end |-> end, page |-> Page(start, end),
         nextPageToken |-> IF end < in.maxResponse THEN Itoa(end) ELSE <<>>]

\* Pagination, lines 219-227: whether the token is refused: Atoi fails, or
\* its value converted to int32 is negative or greater than maxResponse.
TokenRefused(tok, mr, bits) ==
    LET token == Atoi(tok, bits)
        token32 == Int32(token)
    IN  token.err \/ token32 < 0 \/ token32 > mr

\* A Pagination with a cursor: a call with the empty token resumes where the
\* call before it ended.
PaginationResumes(in, bits) ==
    IF in.pageSize < 0 \/ in.pageSizeOverride < 0 THEN PaginationFailure(NegativeSizeErr)
    ELSE IF in.maxResponse <= 0 THEN PaginationFailure(NonPositiveMaxErr)
    ELSE IF in.pageToken = <<>>
         THEN PaginationWindow(in, IF pgOut.end >= 0 /\ pgOut.end <= in.maxResponse
                                   THEN pgOut.end ELSE 0)
    ELSE IF TokenRefused(in.pageToken, in.maxResponse, bits)
         THEN PaginationFailure(InvalidTokenErr(in.pageToken))
    ELSE PaginationWindow(in, Int32(Atoi(in.pageToken, bits)))

\* Pagination, lines 210-256, on a build whose int has `bits` bits.
Pagination(in, bits) ==
    IF in.pageSize < 0 \/ in.pageSizeOverride < 0 THEN PaginationFailure(NegativeSizeErr)
    ELSE IF in.maxResponse <= 0 THEN PaginationFailure(NonPositiveMaxErr)
    ELSE IF in.pageToken = <<>> THEN PaginationWindow(in, 0)
    ELSE IF TokenRefused(in.pageToken, in.maxResponse, bits)
         THEN PaginationFailure(InvalidTokenErr(in.pageToken))
    ELSE PaginationWindow(in, Int32(Atoi(in.pageToken, bits)))

\* The inputs: small values and the values next to the ends of the int32
\* range for the sizes; for the token the empty token, the decimal forms of
\* the small values, and tokens that are not numbers, carry a sign or a
\* leading zero, or lie outside the 32-bit or the 64-bit range.
PageSizes == (-1..MaxSmall) \cup {(MaxInt32 \div 2) + 2, MaxInt32}

MaxResponses == (0..(MaxSmall + 1)) \cup {MaxInt32}

OddTokens ==
    { <<"a">>, <<"1", "a">>, <<"-">>, <<"-", "1">>, <<"+", "1">>, <<"0", "1">>,
      <<"2", "1", "4", "7", "4", "8", "3", "6", "4", "8">>,
      <<"4", "2", "9", "4", "9", "6", "7", "2", "9", "6">>,
      <<"4", "2", "9", "4", "9", "6", "7", "2", "9", "7">>,
      <<"-", "4", "2", "9", "4", "9", "6", "7", "2", "9", "5">>,
      <<"9", "2", "2", "3", "3", "7", "2", "0", "3", "6", "8", "5", "4", "7", "7",
        "5", "8", "0", "8">>,
      <<"1", "8", "4", "4", "6", "7", "4", "4", "0", "7", "3", "7", "0", "9", "5",
        "5", "1", "6", "1", "7">> }

PageTokens == {<<>>} \cup { Itoa(n) : n \in 0..(MaxSmall + 2) } \cup OddTokens

NoRequest == PaginationRequest(0, 0, <<>>, 0)

\* The chain of calls from the empty token: the number of calls, the number
\* of items of the pages before the last one, and whether every page so far
\* began where the one before it ended (the first at 0).
NoChain == [live |-> FALSE, calls |-> 0, before |-> 0, contiguous |-> TRUE]

Continues(page, before) == page.len = 0 \/ page.first = before

\* The chain as a call with request in and result out starts it (or not).
ChainFrom(in, out) ==
    IF in.pageToken = <<>>
    THEN [live |-> TRUE, calls |-> 1, before |-> 0, contiguous |-> Continues(out.page, 0)]
    ELSE NoChain

\* No Pagination call was made yet.
NoFirst == [in |-> NoRequest, out |-> PaginationFailure(NoErr), n |-> 0]

\* ------------------------------------------------------------------ Timeout

\* An optional message field is the empty sequence (absent) or <<value>>.
Absent == <<>>

\* status.ErrorProto(in.GetError()) for an optional descriptor: nil for an
\* absent one (a nil status has code OK).
ErrorProtoOpt(e) == IF e = Absent THEN NoErr ELSE ErrorProto(e[1])

ErrorDescriptors == {Absent, <<OkStatus>>, <<ErrAt(1)>>}

TimeoutIdle ==
    [pc |-> "idle", delay |-> 0, slept |-> 0, cancelledAt |-> -1,
     error |-> Absent, success |-> Absent, resp |-> Absent, err |-> NoErr]

\* Timeout, lines 163-166: the result once the sleep is over.
TimeoutResult(t) ==
    IF t.error # Absent THEN [resp |-> Absent, err |-> ErrorProto(t.error[1])]
    ELSE [resp |-> t.success, err |-> NoErr]

\* sleepF(d), time.Sleep: whether the sleep is over. It returns once d has
\* elapsed (at once for d <= 0), whatever happens to the call's context.
SleepOver(t) == t.slept >= t.delay

\* ------------------------------------------------------------------ Collect

Contents == {<<>>, <<"a">>, <<"b">>}

EchoRequests == [content : Contents, error : ErrorDescriptors]

\* A join that puts nothing between the parts.
RECURSIVE JoinWithoutSeparator(_)
JoinWithoutSeparator(parts) ==
    IF parts = <<>> THEN <<>>
    ELSE parts[1] \o JoinWithoutSeparator(Tail(parts))

\* strings.Join(resp, " ")
RECURSIVE Join(_)
Join(parts) ==
    IF parts = <<>> THEN <<>>
    ELSE IF Len(parts) = 1 THEN parts[1]
    ELSE parts[1] \o <<" ">> \o Join(Tail(parts))

\* A failure of the stream itself (not a status of the server's making).
TransportErr == [code |-> 2, message |-> <<"transport">>]

CollectIdle ==
    [pc |-> "idle", resp |-> <<>>, got |-> <<>>, sent |-> <<>>, err |-> NoErr]

\* A Collect that does not look at the error of a message.
CollectMessageIgnoresError(c, m) ==
    [c EXCEPT !.got = Append(@, m),
              !.resp = IF m.content # <<>> THEN Append(@, m.content) ELSE @]

\* Collect, lines 132-138: one received message: the call ends with the
\* message's error if status.ErrorProto makes one of its descriptor, and
\* otherwise its content, if not empty, is appended to resp.
CollectMessage(c, m) ==
    LET e == ErrorProtoOpt(m.error)
    IN  IF e # NoErr
        THEN [c EXCEPT !.pc = "done", !.got = Append(@, m), !.err = e]
        ELSE [c EXCEPT !.got = Append(@, m),
                       !.resp = IF m.content # <<>> THEN Append(@, m.content) ELSE @]

\* --------------------------------------------------------------------- Echo

EchoIdle ==
    [pc |-> "idle", content |-> <<>>, error |-> Absent, resp |-> Absent, err |-> NoErr]

\* Echo, lines 101-105: the error that status.ErrorProto makes of the
\* request's descriptor, if it makes one, and the content otherwise.
EchoResult(content, e) ==
    LET err == ErrorProtoOpt(e)
    IN  IF err # NoErr
        THEN [EchoIdle EXCEPT !.pc = "done", !.content = content, !.error = e, !.err = err]
        ELSE [EchoIdle EXCEPT !.pc = "done", !.content = content, !.error = e,
                              !.resp = <<content>>]

\* ------------------------------------------------------------------- Expand

ExpandIdle ==
    [pc |-> "idle", content |-> <<>>, error |-> Absent, words |-> <<>>, sent |-> <<>>,
     err |-> NoErr]

\* unicode.IsSpace, on the characters of the requests.
IsSpace(c) == c \in {" ", "\t"}

\* strings.Fields(s): the maximal runs of characters that are not white
\* space, in order; a character extends the last word when the character
\* before it is not white space, and starts a word otherwise.
RECURSIVE Fields(_)
Fields(s) ==
    IF s = <<>> THEN <<>>
    ELSE LET n == Len(s)
             front == Fields(SubSeq(s, 1, n - 1))
         IN  IF IsSpace(s[n]) THEN front
             ELSE IF n >= 2 /\ ~IsSpace(s[n - 1])
                  THEN [front EXCEPT ![Len(front)] = Append(@, s[n])]
             ELSE Append(front, <<s[n]>>)

\* The contents of the Expand requests: the strings of at most MaxChars
\* characters over two letters and two kinds of white space.
ExpandChars == {"a", "b", " ", "\t"}

ExpandContents == UNION { [1..n -> ExpandChars] : n \in 0..MaxChars }

\* An Expand that looks at the error of the request before it sends a word.
ExpandBeginChecksErrorFirst(content, e) ==
    IF ErrorProtoOpt(e) # NoErr
    THEN [ExpandIdle EXCEPT !.pc = "done", !.content = content, !.error = e,
                            !.words = Fields(content), !.err = ErrorProtoOpt(e)]
    ELSE [ExpandIdle EXCEPT !.pc = "send", !.content = content, !.error = e,
                            !.words = Fields(content)]

\* Expand, lines 108-109: the call starts on the words of the content.
ExpandBegin(content, e) ==
    [ExpandIdle EXCEPT !.pc = "send", !.content = content, !.error = e,
                       !.words = Fields(content)]

\* Expand, lines 115-118: the result once every word was sent.
ExpandResult(x) ==
    IF x.error # Absent THEN ErrorProto(x.error[1]) ELSE NoErr

\* --------------------------------------------------------------------- Chat

ChatIdle ==
    [pc |-> "idle", got |-> <<>>, sent |-> <<>>, sendFailed |-> FALSE, eof |-> FALSE,
     err |-> NoErr]

\* A Chat that goes on to echo a message whatever its error.
ChatMessageIgnoresError(c, m) ==
    [c EXCEPT !.pc = "send", !.got = Append(@, m)]

\* Chat, lines 152-155: one received message: the call ends with the
\* message's error if status.ErrorProto makes one of its descriptor, and
\* otherwise goes on to echo the message.
ChatMessage(c, m) ==
    LET e == ErrorProtoOpt(m.error)
    IN  IF e # NoErr
        THEN [c EXCEPT !.pc = "done", !.got = Append(@, m), !.err = e]
        ELSE [c EXCEPT !.pc = "send", !.got = Append(@, m)]

\* ---------------------------------------------------------------------- Init

\* NewShowcaseServer, lines 92-98: retryStore is the nil map, mu is unlocked.
RetryInit ==
    /\ retryStore = << >>
    /\ mu = FALSE
    /\ inflight = EmptyBag
    /\ calls = 0
    /\ hist = [id \in ClockIds |-> NoHist]

NoCallsYet ==
    /\ pgIn = NoRequest
    /\ pgOut = PaginationFailure(NoErr)
    /\ pgChain = NoChain
    /\ pgFirst = NoFirst
    /\ tm = TimeoutIdle
    /\ cl = CollectIdle
    /\ echo = EchoIdle
    /\ expd = ExpandIdle
    /\ chat = ChatIdle

Init == RetryInit /\ intSize = 64 /\ NoCallsYet

\* ------------------------------------------------------------------- actions

\* A call may arrive while fewer than NumProcs are in flight.
Arrive(c) ==
    /\ BagCardinality(inflight) < NumProcs
    /\ calls < MaxCalls
    /\ calls' = calls + 1
    /\ inflight' = inflight (+) SetToBag({c})

\* SetupRetry, lines 169-172: a call arrives; a request whose list of
\* responses is empty (or absent) is refused before the lock is taken. The
\* list of a request that passes is drawn where the handler reads it (line 178).
SetupRetryEnter(empty) ==
    /\ IF empty
       THEN Arrive(Call("SetupRetry", "sr_invalid", EmptyId, <<>>, Ret(NoResponsesErr, EmptyId)))
       ELSE Arrive(Call("SetupRetry", "sr_lock", EmptyId, <<>>, Ret(NoErr, EmptyId)))
    /\ UNCHANGED <<retryStore, mu, hist>>
    /\ UNCHANGED <<pgVars, tm, cl, echoVars>>

\* SetupRetry, line 171: the return of the INVALID_ARGUMENT error.
SetupRetryReject(c) ==
    /\ c \in InFlight /\ c.pc = "sr_invalid"
    /\ inflight' = Return(c)
    /\ UNCHANGED <<retryStore, mu, calls, hist>>
    /\ UNCHANGED <<pgVars, tm, cl, echoVars>>

\* SetupRetry, line 173: s.mu.Lock()
SetupRetryLock(c) ==
    /\ c \in InFlight /\ c.pc = "sr_lock"
    /\ Lock
    /\ inflight' = Step(c, [c EXCEPT !.pc = "sr_store"])
    /\ UNCHANGED <<retryStore, calls, hist>>
    /\ UNCHANGED <<pgVars, tm, cl, echoVars>>

\* SetupRetry, lines 174-178: the id is formatted from the clock value unix
\* that nowF returns, and the request's list is stored under it (the nil map
\* is made first).
SetupRetryStore(c, unix, list) ==
    /\ c \in InFlight /\ c.pc = "sr_store"
    /\ LET id == RetryId(unix)
       IN  /\ retryStore' = StorePut(retryStore, id, list)
           /\ inflight' = Step(c, [c EXCEPT !.pc = "sr_unlock", !.ret = Ret(NoErr, id)])
           /\ hist' = [hist EXCEPT ![id] = [setup |-> list, results |-> <<>>]]
    /\ UNCHANGED <<mu, calls>>
    /\ UNCHANGED <<pgVars, tm, cl, echoVars>>

\* SetupRetry, lines 179-180: s.mu.Unlock() and the return of the id.
SetupRetryReturn(c) ==
    /\ c \in InFlight /\ c.pc = "sr_unlock"
    /\ Unlock
    /\ inflight' = Return(c)
    /\ UNCHANGED <<retryStore, calls, hist>>
    /\ UNCHANGED <<pgVars, tm, cl, echoVars>>

\* Retry, lines 183-186: a call arrives; the empty id is refused before the
\* lock is taken.
RetryEnter(id) ==
    /\ IF id = EmptyId
       THEN Arrive(Call("Retry", "r_invalid", id, <<>>, Ret(NoIdErr, EmptyId)))
       ELSE Arrive(Call("Retry", "r_lock", id, <<>>, Ret(NoErr, EmptyId)))
    /\ UNCHANGED <<retryStore, mu, hist>>
    /\ UNCHANGED <<pgVars, tm, cl, echoVars>>

\* Retry, line 185: the return of the INVALID_ARGUMENT error.
RetryReject(c) ==
    /\ c \in InFlight /\ c.pc = "r_invalid"
    /\ inflight' = Return(c)
    /\ UNCHANGED <<retryStore, mu, calls, hist>>
    /\ UNCHANGED <<pgVars, tm, cl, echoVars>>

\* Retry, lines 187-188: s.mu.Lock(); the unlock is deferred to the return.
RetryLock(c) ==
    /\ c \in InFlight /\ c.pc = "r_lock"
    /\ Lock
    /\ inflight' = Step(c, [c EXCEPT !.pc = "r_lookup"])
    /\ UNCHANGED <<retryStore, calls, hist>>
    /\ UNCHANGED <<pgVars, tm, cl, echoVars>>

\* Retry, lines 189-192: the lookup; an id with no entry is NOT_FOUND.
RetryLookup(c) ==
    /\ c \in InFlight /\ c.pc = "r_lookup"
    /\ IF HasEntry(retryStore, c.id)
       THEN /\ inflight' = Step(c, [c EXCEPT !.pc = "r_pop", !.resps = retryStore[c.id]])
            /\ UNCHANGED hist
       ELSE /\ inflight' = Step(c, [c EXCEPT !.pc = "r_unlock",
                                             !.ret = Ret(NotFoundErr(c.id), EmptyId)])
            /\ hist' = Record(c.id, Ret(NotFoundErr(c.id), EmptyId))
    /\ UNCHANGED <<retryStore, mu, calls>>
    /\ UNCHANGED <<pgVars, tm, cl, echoVars>>

\* Retry, lines 193-203: the head is popped, the entry updated or deleted,
\* and the popped outcome becomes the result.
RetryPop(c) ==
    /\ c \in InFlight /\ c.pc = "r_pop"
    /\ retryStore' = StoreAfterPop(retryStore, c.id, c.resps)
    /\ inflight' = Step(c, [c EXCEPT !.pc = "r_unlock", !.resps = <<>>,
                                     !.ret = PopResult(c.resps)])
    /\ hist' = Record(c.id, PopResult(c.resps))
    /\ UNCHANGED <<mu, calls>>
    /\ UNCHANGED <<pgVars, tm, cl, echoVars>>

\* Retry, line 188 at the return: the deferred s.mu.Unlock().
RetryReturn(c) ==
    /\ c \in InFlight /\ c.pc = "r_unlock"
    /\ Unlock
    /\ inflight' = Return(c)
    /\ UNCHANGED <<retryStore, calls, hist>>
    /\ UNCHANGED <<pgVars, tm, cl, echoVars>>

Next ==
    \/ \E empty \in BOOLEAN : SetupRetryEnter(empty)
    \/ \E c \in InFlight : SetupRetryReject(c)
    \/ \E c \in InFlight : SetupRetryLock(c)
    \/ \E c \in InFlight, unix \in 0..MaxNow, list \in ResponseLists :
          SetupRetryStore(c, unix, list)
    \/ \E c \in InFlight : SetupRetryReturn(c)
    \/ \E id \in RequestIds : RetryEnter(id)
    \/ \E c \in InFlight : RetryReject(c)
    \/ \E c \in InFlight : RetryLock(c)
    \/ \E c \in InFlight : RetryLookup(c)
    \/ \E c \in InFlight : RetryPop(c)
    \/ \E c \in InFlight : RetryReturn(c)

Spec == Init /\ [][Next]_vars

\* The steps of the calls in flight: every step but an arrival.
Progress ==
    \/ \E c \in InFlight : SetupRetryReject(c)
    \/ \E c \in InFlight : SetupRetryLock(c)
    \/ \E c \in InFlight, unix \in 0..MaxNow, list \in ResponseLists :
          SetupRetryStore(c, unix, list)
    \/ \E c \in InFlight : SetupRetryReturn(c)
    \/ \E c \in InFlight : RetryReject(c)
    \/ \E c \in InFlight : RetryLock(c)
    \/ \E c \in InFlight : RetryLookup(c)
    \/ \E c \in InFlight : RetryPop(c)
    \/ \E c \in InFlight : RetryReturn(c)

\* At most NumProcs calls, which may all be in flight at once.
FewArrive ==
    \/ calls < NumProcs /\ \E empty \in BOOLEAN : SetupRetryEnter(empty)
    \/ calls < NumProcs /\ \E id \in RequestIds : RetryEnter(id)

FairNext == FewArrive \/ Progress

\* The scheduler runs a handler goroutine that can take a step, and a
\* goroutine blocked in s.mu.Lock() is woken when the mutex is released:
\* while some call in flight can take a step, one does.
FairSpec == Init /\ [][FairNext]_vars /\ WF_vars(Progress)

\* ------------------------------------------------------- Pagination actions

\* A Pagination call with any request; a call with the empty token starts a
\* chain. The handler keeps no state, so a behaviour follows one request.
PaginationCall(in) ==
    LET out == Pagination(in, intSize)
    IN  /\ pgIn = NoRequest
        /\ pgIn' = in
        /\ pgOut' = out
        /\ pgChain' = ChainFrom(in, out)
        /\ pgFirst' = [in |-> in, out |-> out, n |-> 1]
        /\ UNCHANGED <<retryVars, intSize, tm, cl, echoVars>>

\* The client follows the chain: the same request with the nextPageToken
\* the last call returned.
PaginationNextPage ==
    /\ pgChain.live
    /\ pgChain.calls < MaxPages
    /\ pgOut.err = NoErr
    /\ pgOut.nextPageToken # <<>>
    /\ LET in == [pgIn EXCEPT !.pageToken = pgOut.nextPageToken]
           out == Pagination(in, intSize)
           before == pgChain.before + pgOut.page.len
       IN  /\ pgIn' = in
           /\ pgOut' = out
           /\ pgChain' = [live |-> TRUE, calls |-> pgChain.calls + 1, before |-> before,
                          contiguous |-> pgChain.contiguous /\ Continues(out.page, before)]
    /\ UNCHANGED <<retryVars, intSize, pgFirst, tm, cl, echoVars>>

\* A second or later call with the request of the first call.
PaginationRepeat ==
    /\ pgFirst.n >= 1
    /\ pgFirst.n < MaxPages
    /\ LET in == pgFirst.in
           out == Pagination(in, intSize)
       IN  /\ pgIn' = in
           /\ pgOut' = out
           /\ pgChain' = ChainFrom(in, out)
    /\ pgFirst' = [pgFirst EXCEPT !.n = @ + 1]
    /\ UNCHANGED <<retryVars, intSize, tm, cl, echoVars>>

PaginationInit == RetryInit /\ intSize \in {32, 64} /\ NoCallsYet

PaginationNext ==
    \/ \E ps \in PageSizes, pso \in PageSizes, tok \in PageTokens, mr \in MaxResponses :
          PaginationCall(PaginationRequest(ps, pso, tok, mr))
    \/ PaginationNextPage

PaginationSpec == PaginationInit /\ [][PaginationNext]_vars

\* ---------------------------------------------------------- Timeout actions

\* Timeout, lines 160-162: a call arrives and goes to sleep for the delay of
\* its request.
TimeoutEnter(d, e, succ) ==
    /\ tm.pc = "idle"
    /\ tm' = [TimeoutIdle EXCEPT !.pc = "sleeping", !.delay = d, !.error = e,
                                 !.success = succ]
    /\ UNCHANGED <<retryVars, pgVars, cl, echoVars>>

\* A tick of the clock passes while the handler sleeps.
TimeoutSleep ==
    /\ tm.pc = "sleeping"
    /\ ~SleepOver(tm)
    /\ tm' = [tm EXCEPT !.slept = @ + 1]
    /\ UNCHANGED <<retryVars, pgVars, cl, echoVars>>

\* The caller cancels the call (or its deadline expires): ctx is done.
TimeoutCancel ==
    /\ tm.pc = "sleeping"
    /\ tm.cancelledAt = -1
    /\ tm' = [tm EXCEPT !.cancelledAt = tm.slept]
    /\ UNCHANGED <<retryVars, pgVars, cl, echoVars>>

\* Timeout, lines 162-166: sleepF returns and the handler returns.
TimeoutReturn ==
    /\ tm.pc = "sleeping"
    /\ SleepOver(tm)
    /\ tm' = [tm EXCEPT !.pc = "done", !.resp = TimeoutResult(tm).resp,
                        !.err = TimeoutResult(tm).err]
    /\ UNCHANGED <<retryVars, pgVars, cl, echoVars>>

TimeoutNext ==
    \/ \E d \in -1..MaxDelay, e \in ErrorDescriptors, succ \in {Absent, <<"s">>} :
          TimeoutEnter(d, e, succ)
    \/ TimeoutSleep
    \/ TimeoutCancel
    \/ TimeoutReturn

TimeoutSpec == Init /\ [][TimeoutNext]_vars

\* ---------------------------------------------------------- Collect actions

\* Collect, lines 121-124: a call arrives.
CollectEnter ==
    /\ cl.pc = "idle"
    /\ cl' = [CollectIdle EXCEPT !.pc = "recv"]
    /\ UNCHANGED <<retryVars, pgVars, tm, echoVars>>

\* Collect, lines 125, 132-138: stream.Recv() delivers a message.
CollectRecv(m) ==
    /\ cl.pc = "recv"
    /\ Len(cl.got) < MaxMsgs
    /\ cl' = CollectMessage(cl, m)
    /\ UNCHANGED <<retryVars, pgVars, tm, echoVars>>

\* Collect, lines 126-128: stream.Recv() returns io.EOF; the joined contents
\* are sent with SendAndClose, whose error, if any, is the call's.
CollectEOF(sendFails) ==
    /\ cl.pc = "recv"
    /\ cl' = IF sendFails
             THEN [cl EXCEPT !.pc = "done", !.err = TransportErr]
             ELSE [cl EXCEPT !.pc = "done", !.sent = <<Join(cl.resp)>>]
    /\ UNCHANGED <<retryVars, pgVars, tm, echoVars>>

\* Collect, lines 129-131: stream.Recv() fails.
CollectRecvFails ==
    /\ cl.pc = "recv"
    /\ cl' = [cl EXCEPT !.pc = "done", !.err = TransportErr]
    /\ UNCHANGED <<retryVars, pgVars, tm, echoVars>>

CollectNext ==
    \/ CollectEnter
    \/ \E m \in EchoRequests : CollectRecv(m)
    \/ \E sendFails \in BOOLEAN : CollectEOF(sendFails)
    \/ CollectRecvFails

CollectSpec == Init /\ [][CollectNext]_vars

\* ----------------------------------------------------------- Expand actions

\* Expand, lines 108-109: a call arrives.
ExpandEnter(content, e) ==
    /\ expd.pc = "idle"
    /\ expd' = ExpandBegin(content, e)
    /\ UNCHANGED <<retryVars, pgVars, tm, cl, echo, chat>>

\* Expand, lines 109-114: stream.Send of the next word; a failed send ends
\* the call with its error.
ExpandSend(fails) ==
    /\ expd.pc = "send"
    /\ Len(expd.sent) < Len(expd.words)
    /\ expd' = IF fails
               THEN [expd EXCEPT !.pc = "done", !.err = TransportErr]
               ELSE [expd EXCEPT !.sent = Append(@, expd.words[Len(expd.sent) + 1])]
    /\ UNCHANGED <<retryVars, pgVars, tm, cl, echo, chat>>

\* Expand, lines 115-118: after the last word, the error of the request, if
\* any, is the result.
ExpandReturn ==
    /\ expd.pc = "send"
    /\ Len(expd.sent) = Len(expd.words)
    /\ expd' = [expd EXCEPT !.pc = "done", !.err = ExpandResult(expd)]
    /\ UNCHANGED <<retryVars, pgVars, tm, cl, echo, chat>>

ExpandNext ==
    \/ \E content \in ExpandContents, e \in ErrorDescriptors : ExpandEnter(content, e)
    \/ \E fails \in BOOLEAN : ExpandSend(fails)
    \/ ExpandReturn

ExpandSpec == Init /\ [][ExpandNext]_vars

\* ------------------------------------------------------------- Chat actions

\* Chat, lines 142-143: a call arrives.
ChatEnter ==
    /\ chat.pc = "idle"
    /\ chat' = [ChatIdle EXCEPT !.pc = "recv"]
    /\ UNCHANGED <<retryVars, pgVars, tm, cl, echo, expd>>

\* Chat, lines 144, 152-155: stream.Recv() delivers a message.
ChatRecv(m) ==
    /\ chat.pc = "recv"
    /\ Len(chat.got) < MaxMsgs
    /\ chat' = ChatMessage(chat, m)
    /\ UNCHANGED <<retryVars, pgVars, tm, cl, echo, expd>>

\* Chat, line 156: stream.Send echoes the content of the message just
\* received; the error of a failed send is dropped and the loop goes on.
ChatSend(fails) ==
    /\ chat.pc = "send"
    /\ chat' = IF fails
               THEN [chat EXCEPT !.pc = "recv", !.sendFailed = TRUE]
               ELSE [chat EXCEPT !.pc = "recv",
                                 !.sent = Append(@, chat.got[Len(chat.got)].content)]
    /\ UNCHANGED <<retryVars, pgVars, tm, cl, echo, expd>>

\* Chat, lines 145-147: stream.Recv() returns io.EOF; the call returns nil.
ChatEOF ==
    /\ chat.pc = "recv"
    /\ chat' = [chat EXCEPT !.pc = "done", !.eof = TRUE]
    /\ UNCHANGED <<retryVars, pgVars, tm, cl, echo, expd>>

\* Chat, lines 148-150: stream.Recv() fails.
ChatRecvFails ==
    /\ chat.pc = "recv"
    /\ chat' = [chat EXCEPT !.pc = "done", !.err = TransportErr]
    /\ UNCHANGED <<retryVars, pgVars, tm, cl, echo, expd>>

ChatNext ==
    \/ ChatEnter
    \/ \E m \in EchoRequests : ChatRecv(m)
    \/ \E fails \in BOOLEAN : ChatSend(fails)
    \/ ChatEOF
    \/ ChatRecvFails

ChatSpec == Init /\ [][ChatNext]_vars

\* ------------------------------------- Pagination among SetupRetry and Retry

\* The requests of the calls made among SetupRetry and Retry calls: the
\* whole list or pages of one, from the start or from the token "1".
PureRequests ==
    { PaginationRequest(ps, 0, tok, MaxSmall) : ps \in 0..1, tok \in {<<>>, Itoa(1)} }

\* Pagination calls (a first one, calls that follow its chain, calls that
\* repeat it) interleaved with the steps of at most NumProcs SetupRetry and
\* Retry calls.
PureNext ==
    \/ \E in \in PureRequests : PaginationCall(in)
    \/ PaginationNextPage
    \/ PaginationRepeat
    \/ FewArrive
    \/ Progress

PureSpec == Init /\ [][PureNext]_vars

\* ------------------------------------------------------------- Echo actions

\* Echo, lines 100-106: a call arrives and returns.
EchoCall(content, e) ==
    /\ echo.pc = "idle"
    /\ echo' = EchoResult(content, e)
    /\ UNCHANGED <<retryVars, pgVars, tm, cl, expd, chat>>

EchoNext == \E content \in Contents, e \in ErrorDescriptors : EchoCall(content, e)

\* ------------------------------------------- the five handlers that inject

\* The handlers that a call has reached so far.
Started ==
    { h \in {"Echo", "Expand", "Collect", "Chat", "Timeout"} :
        \/ h = "Echo" /\ echo.pc # "idle"
        \/ h = "Expand" /\ expd.pc # "idle"
        \/ h = "Collect" /\ cl.pc # "idle"
        \/ h = "Chat" /\ chat.pc # "idle"
        \/ h = "Timeout" /\ tm.pc # "idle" }

\* The handlers share no state: a behaviour follows a call to one of them.
Alone(h) == Started \subseteq {h}

InjectNext ==
    \/ Alone("Echo") /\ EchoNext
    \/ Alone("Expand") /\ ExpandNext
    \/ Alone("Collect") /\ CollectNext
    \/ Alone("Chat") /\ ChatNext
    \/ Alone("Timeout") /\ TimeoutNext

InjectSpec == Init /\ [][InjectNext]_vars

\* ================================================================== claims

\* The error a call returns for a queued outcome: its code and its message.
ErrorOf(outcome) == [code |-> outcome.code, message |-> outcome.message]

\* k >= 0 outcomes that are not OK, followed by one OK outcome.
NonOkThenOk(q) ==
    /\ Len(q) >= 1
    /\ q[Len(q)].code = OK
    /\ \A i \in 1..(Len(q) - 1) : q[i].code # OK

\* n >= 1 outcomes, none of them OK.
AllNonOk(q) == Len(q) >= 1 /\ \A i \in 1..Len(q) : q[i].code # OK

\* C1: after SetupRetry stored k non-OK outcomes followed by one OK under id
\* (and no later SetupRetry stored under id again), the i-th Retry(id) to
\* reach the table fails with the error of outcome i for i <= k, succeeds for
\* i = k+1, and fails with NOT_FOUND for i = k+2.
C1_RetryFollowsQueue ==
    \A id \in ClockIds :
        LET q == hist[id].setup
            r == hist[id].results
            k == Len(q) - 1
        IN  NonOkThenOk(q) =>
                \A i \in 1..Len(r) :
                    /\ i <= k => r[i].err = ErrorOf(q[i])
                    /\ i = k + 1 => r[i].err = NoErr
                    /\ i = k + 2 => r[i].err = NotFoundErr(id)

\* One failure, then the success, then NOT_FOUND: the whole run for k = 1.
C1_Witness ==
    \E id \in ClockIds :
        /\ hist[id].setup = <<ErrAt(1), OkStatus>>
        /\ Len(hist[id].results) = 3

\* C2: every id of the retry table maps to a queue with at least one
\* outcome, and the list a Retry is about to pop the head of is not empty.
C2_NoEmptyQueue ==
    /\ \A id \in DOMAIN retryStore : Len(retryStore[id]) >= 1
    /\ \A c \in InFlight : c.pc = "r_pop" => Len(c.resps) >= 1

\* An entry that a Retry popped from and stored back.
C2_Witness ==
    \E id \in DOMAIN retryStore :
        /\ Len(hist[id].results) >= 1
        /\ Len(retryStore[id]) < Len(hist[id].setup)

InCritical(c) == c.pc \in {"sr_store", "sr_unlock", "r_lookup", "r_pop", "r_unlock"}

\* C3: Retry calls racing for an entry of n non-OK outcomes are served one
\* at a time: at most one call is between its Lock and its Unlock, the i-th
\* call to reach the table gets outcome i for i <= n (so no outcome is
\* returned twice) and NOT_FOUND for i > n.
C3_ConcurrentRetriesAreAtomic ==
    /\ \A c \in InFlight : InCritical(c) =>
           /\ CopiesIn(c, inflight) = 1
           /\ \A d \in InFlight : InCritical(d) => d = c
    /\ \A id \in ClockIds :
           LET q == hist[id].setup
               r == hist[id].results
               n == Len(q)
           IN  AllNonOk(q) =>
                   /\ \A i \in 1..Len(r) :
                          /\ i <= n => r[i].err = ErrorOf(q[i])
                          /\ i > n => r[i].err = NotFoundErr(id)
                   /\ \A i, j \in 1..Len(r) : (i < j /\ j <= n) => r[i] # r[j]

\* Two Retry calls on the same id in flight at once against an entry of one
\* non-OK outcome: one has popped it and holds the lock, the other waits.
C3_Witness ==
    \E id \in ClockIds : \E c, d \in InFlight :
        /\ hist[id].setup = <<ErrAt(1)>>
        /\ hist[id].results = <<Ret(ErrorOf(ErrAt(1)), EmptyId)>>
        /\ c.op = "Retry" /\ c.id = id /\ c.pc = "r_unlock"
        /\ d.op = "Retry" /\ d.id = id /\ d.pc = "r_lock"

\* C4: the id a SetupRetry stores its list under is not the key of an entry
\* already in the retry table.
C4_SetupRetryIdIsFresh ==
    [][\A c \in InFlight, id \in ClockIds :
           (/\ c.pc = "sr_store"
            /\ inflight' = Step(c, [c EXCEPT !.pc = "sr_unlock", !.ret = Ret(NoErr, id)]))
           => ~HasEntry(retryStore, id)]_vars

ValidSizes(in) == in.pageSize >= 0 /\ in.pageSizeOverride >= 0 /\ in.maxResponse > 0

\* C5: in a chain of Pagination calls from the empty token, with valid sizes
\* held fixed, every call succeeds, every page begins where the one before
\* ended (the first at 0), a call that returns a next token returns at least
\* one item (so the chain ends), and the chain ends with maxResponse items.
C5_ChainPartitions ==
    (pgChain.live /\ ValidSizes(pgIn)) =>
        /\ pgOut.err = NoErr
        /\ pgChain.contiguous
        /\ pgOut.nextPageToken # <<>> => pgOut.page.len > 0
        /\ pgOut.nextPageToken = <<>> => pgChain.before + pgOut.page.len = pgIn.maxResponse

\* C6: the window of a call that passes validation satisfies
\* 0 <= start <= end <= maxResponse.
C6_WindowInRange ==
    (pgIn # NoRequest /\ pgOut.err = NoErr) =>
        /\ 0 <= pgOut.start
        /\ pgOut.start <= pgOut.end
        /\ pgOut.end <= pgIn.maxResponse

\* The digits of a token without its sign and its leading zeros.
RECURSIVE StripZeros(_)
StripZeros(ds) ==
    IF Len(ds) > 1 /\ ds[1] = "0" THEN StripZeros(Tail(ds)) ELSE ds

\* a <= b for two digit sequences of the same length.
RECURSIVE DigitsLeq(_, _)
DigitsLeq(a, b) ==
    IF a = <<>> THEN TRUE
    ELSE IF DigitVal(a[1]) # DigitVal(b[1]) THEN DigitVal(a[1]) < DigitVal(b[1])
    ELSE DigitsLeq(Tail(a), Tail(b))

\* The token is the decimal form (an optional sign, then digits) of an
\* integer t with 0 <= t <= mr.
DecimalInRange(tok, mr) ==
    LET signed == tok # <<>> /\ tok[1] \in {"+", "-"}
        ds == IF signed THEN Tail(tok) ELSE tok
        t == StripZeros(ds)
        m == Itoa(mr)
    IN  /\ ds # <<>>
        /\ \A i \in 1..Len(ds) : IsDigit(ds[i])
        /\ IF tok[1] = "-" THEN t = <<"0">>
           ELSE Len(t) < Len(m) \/ (Len(t) = Len(m) /\ DigitsLeq(t, m))

\* C7: a non-empty token is accepted only if it is the decimal form of an
\* integer t with 0 <= t <= maxResponse; any other token yields
\* INVALID_ARGUMENT and no page.
C7_TokenValidated ==
    (ValidSizes(pgIn) /\ pgIn.pageToken # <<>>) =>
        IF DecimalInRange(pgIn.pageToken, pgIn.maxResponse)
        THEN pgOut.err = NoErr
        ELSE pgOut.err.code = InvalidArgument /\ pgOut.page = NoPage

\* C8: for a call that passes validation, the page is [start, min(start +
\* size, maxResponse)) where size is pageSizeOverride if > 0 and pageSize
\* otherwise, a size of 0 giving everything from start; nextPageToken is the
\* decimal form of the end when it is below maxResponse and empty otherwise.
C8_PageAndNextToken ==
    (pgIn # NoRequest /\ pgOut.err = NoErr) =>
        LET size == IF pgIn.pageSizeOverride > 0 THEN pgIn.pageSizeOverride
                    ELSE pgIn.pageSize
            start == pgOut.start
            end == IF size = 0 \/ size >= pgIn.maxResponse - start
                   THEN pgIn.maxResponse ELSE start + size
        IN  /\ pgOut.page = Page(start, end)
            /\ pgOut.nextPageToken = IF end < pgIn.maxResponse THEN Itoa(end) ELSE <<>>

\* C9: a Timeout call cancelled while it sleeps, with part of its delay still
\* to go, returns without having slept the whole delay.
C9_CancelEndsSleep ==
    (tm.pc = "done" /\ tm.cancelledAt >= 0 /\ tm.cancelledAt < tm.delay) =>
        tm.slept < tm.delay

\* C10 as stated: a received message that carries an error descriptor (of
\* any code) is the last one read, the call ends with that error, and no
\* response is sent.
C10_AnyDescriptorAborts ==
    \A i \in 1..Len(cl.got) :
        cl.got[i].error # Absent =>
            /\ i = Len(cl.got)
            /\ cl.pc = "done"
            /\ cl.err = ErrorOf(cl.got[i].error[1])
            /\ cl.sent = <<>>

\* C10, amended: a received message that carries an error descriptor whose
\* code is not OK is the last one read, the call ends with that error, and
\* no response is sent (what was accumulated is dropped).
C10_ErrorAborts ==
    \A i \in 1..Len(cl.got) :
        (cl.got[i].error # Absent /\ cl.got[i].error[1].code # OK) =>
            /\ i = Len(cl.got)
            /\ cl.pc = "done"
            /\ cl.err = ErrorOf(cl.got[i].error[1])
            /\ cl.sent = <<>>

\* Content was accumulated, then a message with an error ended the call.
C10_Witness ==
    /\ cl.pc = "done"
    /\ Len(cl.got) >= 2
    /\ cl.resp # <<>>
    /\ cl.got[Len(cl.got)].error = <<ErrAt(1)>>
    /\ cl.err = ErrorOf(ErrAt(1))
    /\ cl.sent = <<>>

\* The non-empty content fields of the messages msgs, in order, with one
\* space between two of them: built from the last message backwards.
RECURSIVE JoinedContents(_)
JoinedContents(msgs) ==
    IF msgs = <<>> THEN <<>>
    ELSE LET front == SubSeq(msgs, 1, Len(msgs) - 1)
             last == msgs[Len(msgs)].content
             nonEmptyBefore == \E i \in 1..Len(front) : front[i].content # <<>>
         IN  IF last = <<>> THEN JoinedContents(front)
             ELSE IF nonEmptyBefore THEN JoinedContents(front) \o <<" ">> \o last
             ELSE last

\* No message of msgs makes the Status Injector produce an error.
NoErrorIn(msgs) == \A i \in 1..Len(msgs) : ErrorProtoOpt(msgs[i].error) = NoErr

\* C11: in a Collect call where no received message carries an error and the
\* stream does not fail, nothing is sent before the end of input, and then
\* exactly one response is sent, whose content is the non-empty contents of
\* the received messages in arrival order joined by single spaces.
C11_CollectJoinsContents ==
    /\ cl.pc # "done" => cl.sent = <<>>
    /\ Len(cl.sent) <= 1
    /\ (cl.pc = "done" /\ NoErrorIn(cl.got) /\ cl.err = NoErr) =>
           cl.sent = <<JoinedContents(cl.got)>>

\* Contents a, empty, b arrived and the response "a b" was sent.
C11_Witness ==
    /\ cl.pc = "done"
    /\ Len(cl.got) = 3
    /\ cl.got[1].content = <<"a">> /\ cl.got[2].content = <<>> /\ cl.got[3].content = <<"b">>
    /\ cl.sent = <<<<"a", " ", "b">>>>

\* The positions of s where a word starts: a character that is not white
\* space, at the start of s or right after white space.
WordStarts(s) ==
    { i \in 1..Len(s) : ~IsSpace(s[i]) /\ (i = 1 \/ IsSpace(s[i - 1])) }

\* The word of s that starts at i: up to the last position j such that no
\* character from i to j is white space.
WordAt(s, i) ==
    LET j == CHOOSE k \in i..Len(s) :
                 /\ \A m \in i..k : ~IsSpace(s[m])
                 /\ (k = Len(s) \/ IsSpace(s[k + 1]))
    IN  SubSeq(s, i, j)

\* The whitespace-separated words of s, in order.
WordsOf(s) ==
    LET starts == WordStarts(s)
        nth(k) == CHOOSE i \in starts : Cardinality({ j \in starts : j < i }) = k - 1
    IN  [k \in 1..Cardinality(starts) |-> WordAt(s, nth(k))]

\* C12: in an Expand call the messages sent so far are the first words of
\* the request content, in word order; when the call ends and no send
\* failed, every word was sent, one message per word, and the result is the
\* error of the request's descriptor (so the error comes after every word).
C12_ExpandSendsWordsThenError ==
    LET words == WordsOf(expd.content)
    IN  /\ Len(expd.sent) <= Len(words)
        /\ expd.sent = SubSeq(words, 1, Len(expd.sent))
        /\ (expd.pc = "done" /\ expd.err # TransportErr) =>
               /\ expd.sent = words
               /\ expd.err = ErrorProtoOpt(expd.error)

\* The request "a b" with an error: both words were sent, then the error
\* was returned.
C12_Witness ==
    /\ expd.pc = "done"
    /\ expd.content = <<"a", " ", "b">>
    /\ expd.sent = << <<"a">>, <<"b">> >>
    /\ expd.error = <<ErrAt(1)>>
    /\ expd.err = ErrorOf(ErrAt(1))

\* The contents of the first n messages of msgs, in order.
ContentsOf(msgs, n) == [i \in 1..n |-> msgs[i].content]

\* C13: in a Chat call whose sends succeed, the messages sent are the
\* contents of the messages received before the first one that carries an
\* error, in arrival order; a message is echoed before the next one is read
\* (at most the last message received awaits its echo); a message that
\* carries an error is the last one read, ends the call with that error and
\* is not echoed; the end of input ends the call with success.
C13_ChatEchoesUntilError ==
    LET n == Len(chat.got)
    IN  ~chat.sendFailed =>
            /\ \A i \in 1..(n - 1) : ErrorProtoOpt(chat.got[i].error) = NoErr
            /\ chat.pc = "recv" => NoErrorIn(chat.got) /\ chat.sent = ContentsOf(chat.got, n)
            /\ chat.pc = "send" => NoErrorIn(chat.got) /\ chat.sent = ContentsOf(chat.got, n - 1)
            /\ (chat.pc = "done" /\ ~NoErrorIn(chat.got)) =>
                   /\ chat.err = ErrorProtoOpt(chat.got[n].error)
                   /\ chat.sent = ContentsOf(chat.got, n - 1)
            /\ (chat.pc = "done" /\ NoErrorIn(chat.got)) => chat.sent = ContentsOf(chat.got, n)
            /\ (chat.pc = "done" /\ chat.eof) => chat.err = NoErr /\ NoErrorIn(chat.got)

\* Two messages were echoed, then a message with an error ended the call.
C13_Witness ==
    /\ chat.pc = "done"
    /\ ~chat.sendFailed
    /\ Len(chat.got) = 3
    /\ chat.got[3].error = <<ErrAt(1)>>
    /\ chat.sent = << <<"a">>, <<"b">> >>
    /\ chat.err = ErrorOf(ErrAt(1))

\* The number of Retry calls that use up the queue q: the position of its
\* first OK outcome, or its length when it has none.
UsedUpAt(q) ==
    IF \E i \in 1..Len(q) : q[i].code = OK
    THEN CHOOSE i \in 1..Len(q) : q[i].code = OK /\ \A j \in 1..(i - 1) : q[j].code # OK
    ELSE Len(q)

\* C14: with q the list last stored under id and r the results of the
\* Retry(id) calls since: the entry exists exactly while fewer than
\* UsedUpAt(q) calls were made, it then holds the outcomes not yet popped,
\* the call that pops the first OK (or the last outcome) removes it even when
\* outcomes remain behind, and every later call returns NOT_FOUND.
C14_EntryRemovedAtOkOrEnd ==
    \A id \in ClockIds :
        LET q == hist[id].setup
            r == hist[id].results
            p == UsedUpAt(q)
        IN  /\ HasEntry(retryStore, id) <=> (q # <<>> /\ Len(r) < p)
            /\ HasEntry(retryStore, id) => retryStore[id] = SubSeq(q, Len(r) + 1, Len(q))
            /\ \A i \in 1..Len(r) :
                   /\ i <= p => r[i].err = ErrorProto(q[i])
                   /\ i > p => r[i].err = NotFoundErr(id)

\* An OK at the head with an outcome queued behind it: the first Retry
\* succeeded and removed the entry, the second returned NOT_FOUND.
C14_Witness ==
    \E id \in ClockIds :
        /\ hist[id].setup = <<OkStatus, ErrAt(2)>>
        /\ Len(hist[id].results) = 2
        /\ hist[id].results[2].err = NotFoundErr(id)
        /\ ~HasEntry(retryStore, id)

\* Call c leaves the bag of calls in flight in this step or moves on in it.
Moves(c) == CopiesIn(c, inflight') < CopiesIn(c, inflight)

\* Call d enters the bag of calls in flight in this step.
Appears(d) == CopiesIn(d, inflight') > CopiesIn(d, inflight)

\* C15: a SetupRetry whose list of outcomes is empty or absent returns
\* INVALID_ARGUMENT and no id, and neither its arrival nor its return
\* changes the retry table.
C15_EmptySetupRetryRefused ==
    [][/\ \A c \in InFlight :
              (c.op = "SetupRetry" /\ c.pc = "sr_invalid" /\ Moves(c)) =>
                  /\ inflight' = Return(c)
                  /\ c.ret.err.code = InvalidArgument
                  /\ c.ret.id = EmptyId
                  /\ retryStore' = retryStore
       /\ \A d \in BagToSet(inflight') :
              (d.op = "SetupRetry" /\ d.pc = "sr_invalid" /\ Appears(d)) =>
                  retryStore' = retryStore]_vars

\* A SetupRetry with an empty list is about to return while the table
\* holds an entry.
C15_Witness ==
    /\ \E c \in InFlight : c.op = "SetupRetry" /\ c.pc = "sr_invalid"
    /\ \E id \in ClockIds : HasEntry(retryStore, id)

\* C16: a Retry with the empty id returns INVALID_ARGUMENT without looking
\* at the table; a Retry with a non-empty id that has no entry returns
\* NOT_FOUND; none of the steps of either call changes the retry table.
C16_RetryRefusals ==
    [][\A c \in InFlight :
           /\ (c.op = "Retry" /\ c.id = EmptyId) =>
                  /\ c.pc = "r_invalid"
                  /\ c.ret.err.code = InvalidArgument
                  /\ Moves(c) => (inflight' = Return(c) /\ retryStore' = retryStore)
           /\ (c.op = "Retry" /\ c.pc = "r_lookup" /\ ~HasEntry(retryStore, c.id) /\ Moves(c)) =>
                  /\ retryStore' = retryStore
                  /\ \E d \in BagToSet(inflight') :
                         /\ Appears(d)
                         /\ d.id = c.id /\ d.pc = "r_unlock"
                         /\ d.ret.err.code = NotFound
           /\ (c.op = "Retry" /\ c.pc = "r_unlock" /\ c.ret.err = NotFoundErr(c.id) /\ Moves(c)) =>
                  (inflight' = Return(c) /\ retryStore' = retryStore)]_vars

\* On a server where no SetupRetry ever stored a list, a Retry with a
\* non-empty id is about to return NOT_FOUND.
C16_Witness ==
    /\ retryStore = << >>
    /\ \A id \in ClockIds : hist[id].setup = <<>>
    /\ \E c \in InFlight :
           /\ c.op = "Retry" /\ c.id # EmptyId /\ c.pc = "r_unlock"
           /\ c.ret.err.code = NotFound

\* What error injection is to make of an optional descriptor e: no failure
\* when e is absent or its code is OK, and otherwise a failure with the code
\* and the message of e.
Injected(e) ==
    IF e = Absent THEN NoErr
    ELSE IF e[1].code = OK THEN NoErr
    ELSE [code |-> e[1].code, message |-> e[1].message]

\* Injection in a stream of messages: a message whose descriptor is a
\* failure is the last one read and its failure is the result of the call;
\* no other message makes the call fail.
InjectedInStream(c) ==
    /\ \A i \in 1..Len(c.got) :
           Injected(c.got[i].error) # NoErr =>
               (i = Len(c.got) /\ c.pc = "done" /\ c.err = Injected(c.got[i].error))
    /\ (c.pc = "done" /\ \A i \in 1..Len(c.got) : Injected(c.got[i].error) = NoErr) =>
           c.err \in {NoErr, TransportErr}

InjectedInEcho ==
    echo.pc = "done" =>
        IF Injected(echo.error) = NoErr
        THEN echo.err = NoErr /\ echo.resp = <<echo.content>>
        ELSE echo.err = Injected(echo.error) /\ echo.resp = Absent

InjectedInExpand ==
    (expd.pc = "done" /\ expd.err # TransportErr) => expd.err = Injected(expd.error)

InjectedInTimeout ==
    tm.pc = "done" =>
        IF Injected(tm.error) = NoErr
        THEN tm.err = NoErr /\ tm.resp = tm.success
        ELSE tm.err = Injected(tm.error) /\ tm.resp = Absent

\* C17: in Echo, Expand, Collect, Chat and Timeout alike, an absent
\* descriptor and a descriptor whose code is OK produce no failure and the
\* call goes on to its success, and a descriptor with another code produces
\* a failure with exactly that code and message.
C17_InjectionIsUniform ==
    /\ InjectedInEcho
    /\ InjectedInExpand
    /\ InjectedInStream(cl)
    /\ InjectedInStream(chat)
    /\ InjectedInTimeout

\* A step that is a Pagination call.
PaginationStep == pgFirst' # pgFirst \/ pgIn' # pgIn \/ pgChain' # pgChain

C19_LockReleasedAndCallsReturn ==
    /\ [](mu = (\E c \in InFlight : InCritical(c)))
    /\ (inflight # EmptyBag) ~> (inflight = EmptyBag)

\* A SetupRetry waits for the mutex while a Retry that found no entry holds
\* it and is about to return NOT_FOUND.
C19_Witness ==
    /\ mu = TRUE
    /\ \E c \in InFlight : c.op = "SetupRetry" /\ c.pc = "sr_lock"
    /\ \E d \in InFlight :
           d.op = "Retry" /\ d.pc = "r_unlock" /\ d.ret.err = NotFoundErr(d.id)

\* The entry of key k in the table: absent, or its queue.
EntryOf(store, k) == IF HasEntry(store, k) THEN <<store[k]>> ELSE <<>>

\* C20: the entry of a key k changes only in the step in which a Retry
\* with id k pops its queue, or in which a SetupRetry that returns the id k
\* stores its list: a Retry(id) leaves the queues of all other ids as they
\* are, and a SetupRetry those of all ids but the one it returns.
C20_OnlyOwnEntryChanges ==
    [][\A k \in ClockIds :
           EntryOf(retryStore', k) # EntryOf(retryStore, k) =>
               \E c \in InFlight :
                   /\ Moves(c)
                   /\ \/ c.op = "Retry" /\ c.pc = "r_pop" /\ c.id = k
                      \/ /\ c.op = "SetupRetry" /\ c.pc = "sr_store"
                         /\ \E d \in BagToSet(inflight') :
                                Appears(d) /\ d.pc = "sr_unlock" /\ d.ret.id = k]_vars

\* Two ids have entries: the queue of one was popped by a Retry, the queue
\* of the other is the list that was stored.
C20_Witness ==
    \E j, k \in DOMAIN retryStore :
        /\ j # k
        /\ Len(hist[j].results) >= 1
        /\ retryStore[j] = Tail(hist[j].setup)
        /\ hist[k].results = <<>>
        /\ retryStore[k] = hist[k].setup

====
